---- MODULE Spec2Model ----
(***************************************************************************)
(* County clustering: closest-pair search, hierarchical clustering and     *)
(* k-means clustering of src/alg_p3_core.py, over the Cluster class of     *)
(* alg_cluster.                                                            *)
(*                                                                         *)
(* Representation.  A cluster object is a record                           *)
(*   [oid, fips, hn, vn, den, pop, flh, flv]                               *)
(* oid is the identity of the Python object (Cluster defines no __eq__, so *)
(* list.index and list.remove compare identities), fips the set of member  *)
(* identifiers, pop the total population, and (hn/den, vn/den) the center  *)
(* as the rational point that the floats of the program stand for.  A      *)
(* distance is carried as its square, the rational num/den, or as the      *)
(* value inf.  List indices are the 0-based indices of the source.         *)
(*                                                                         *)
(* Floating point.  Centers and distances are floats.  The fields flh and  *)
(* flv name the float computations behind the two coordinates of a center: *)
(* <<n, d>> when the float is the rational n/d itself (a coordinate as     *)
(* given, or an average that is computed without rounding), and            *)
(* <<fl, pop, fl, pop>>, the two operands of the weighted average, when    *)
(* the average was rounded.  A comparison of two floats has the outcome of *)
(* the comparison of the rationals when these differ.  When they are       *)
(* equal, the floats are equal if they come from the same computation or   *)
(* carry no rounding error; otherwise the rounding decides, and both       *)
(* outcomes are possible.  A function whose control flow rests on such     *)
(* comparisons is therefore an operator that yields the set of its         *)
(* possible results, and the action that calls it takes any one of them.   *)
(***************************************************************************)
EXTENDS Integers, Sequences, FiniteSets, TLC

VARIABLES
    op,                 \* the function that was called, "none" before the call
    pc,                 \* position of the call: "idle", a loop label, "done", "error"
    cluster_list,       \* the caller's list object (hierarch_clustering mutates it)
    input_list,         \* the list as it was when the call was made
    num_clusters,       \* parameter num_clusters
    num_iterations,     \* parameter num_iterations
    cluster_list_temp,  \* kmeans_clustering: the population-sorted copy
    starting_clusters,  \* kmeans_clustering: the current centers
    c_list,             \* kmeans_clustering: the accumulators of the round
    round,              \* kmeans_clustering: rounds completed
    idx_1,              \* kmeans_clustering: next input to assign in the round
    merges,             \* hierarch_clustering: loop iterations executed
    result,             \* the returned value
    err,                \* the exception raised, "" when none
    sweep               \* dist_vs_clusters: its phase, range and distortion lists

vars == <<op, pc, cluster_list, input_list, num_clusters, num_iterations,
          cluster_list_temp, starting_clusters, c_list, round, idx_1, merges,
          result, err, sweep>>

(***************************************************************************)
(* Bounds of the model.                                                    *)
(***************************************************************************)
MaxPts == 5
MaxAny == 3
MaxN == 4
MaxK == 3

\* coordinates of the closest-pair inputs
XS == {0, 2, 4}
YS == {0, 1, 2}

\* coordinates and populations of the clustering inputs
GridX == {0, 1, 2}
GridY == {0, 5}
KPoints == {<<0, 0>>, <<2, 0>>, <<4, 0>>, <<0, 5>>}
Pops == {1, 2}
Iterations == {0, 1, 2}

(***************************************************************************)
(* Arithmetic helpers.                                                     *)
(***************************************************************************)
Min(a, b) == IF a <= b THEN a ELSE b
Max(a, b) == IF a >= b THEN a ELSE b
Abs(a) == IF a < 0 THEN -a ELSE a

RECURSIVE GCD(_, _)
GCD(a, b) == IF b = 0 THEN a ELSE GCD(b, a % b)

RECURSIVE Pow2(_)
Pow2(e) == IF e = 0 THEN 1 ELSE 2 * Pow2(e - 1)

IsPow2(n) == \E e \in 0..30 : n = Pow2(e)

\* float('inf')
Inf == [inf |-> TRUE, num |-> 0, den |-> 1, ends |-> <<>>]

\* a < b, a <= b and a = b on the values that two distances stand for
DistLess(a, b) == ~a.inf /\ (b.inf \/ a.num * b.den < b.num * a.den)
DistLE(a, b) == b.inf \/ (~a.inf /\ a.num * b.den <= b.num * a.den)
DistEq(a, b) == (a.inf /\ b.inf) \/ (~a.inf /\ ~b.inf /\ a.num * b.den = b.num * a.den)

\* list[idx] of Python, negative indices counting from the end
InRange(list, idx) == -Len(list) <= idx /\ idx < Len(list)
At(list, idx) == IF idx >= 0 THEN list[idx + 1] ELSE list[Len(list) + idx + 1]

(***************************************************************************)
(* The Cluster class.                                                      *)
(***************************************************************************)
Cluster(oid, fips_codes, horiz_pos, vert_pos, population) ==
    [oid |-> oid, fips |-> fips_codes, hn |-> horiz_pos, vn |-> vert_pos,
     den |-> 1, pop |-> population,
     flh |-> <<horiz_pos, 1>>, flv |-> <<vert_pos, 1>>]

\* the float named by fl is the rational itself
IsExact(fl) == Len(fl) = 2

\* Euclidean distance between the centers; ends names the two float centers
\* it is computed from
distance(a, b) ==
    [inf |-> FALSE,
     num |-> (a.hn * b.den - b.hn * a.den) * (a.hn * b.den - b.hn * a.den)
           + (a.vn * b.den - b.vn * a.den) * (a.vn * b.den - b.vn * a.den),
     den |-> (a.den * b.den) * (a.den * b.den),
     ends |-> <<a.flh, a.flv, b.flh, b.flv>>]

\* a.horiz_center() < b.horiz_center(), a.vert_center() < b.vert_center() on
\* the values that the centers stand for
HorizLess(a, b) == a.hn * b.den < b.hn * a.den
VertLess(a, b) == a.vn * b.den < b.vn * a.den

\* merge_clusters: the receiver takes the union of the members, the sum of the
\* populations and the population-weighted average of the two centers (its
\* own center when the total population is 0); the receiver is returned.
\* The weights population / total are binary fractions when the total is a
\* power of 2, and 1 and 0 when one population is 0; the average of two
\* coordinates without rounding error is then computed without rounding
\* error, as is the average of 0 and 0.  WeightedFloat names the float of the
\* averaged coordinate num / den.
WeightedFloat(self_fl, self_pop, other_fl, other_pop, num, den) ==
    IF other_pop = 0 THEN self_fl
    ELSE IF self_pop = 0 THEN other_fl
    ELSE IF /\ IsExact(self_fl) /\ IsExact(other_fl)
            /\ IsPow2(self_pop + other_pop) \/ (self_fl[1] = 0 /\ other_fl[1] = 0)
         THEN <<num \div GCD(Abs(num), den), den \div GCD(Abs(num), den)>>
         ELSE <<self_fl, self_pop, other_fl, other_pop>>

merge_clusters(self, other) ==
    LET total == self.pop + other.pop
        hnum == self.pop * self.hn * other.den + other.pop * other.hn * self.den
        vnum == self.pop * self.vn * other.den + other.pop * other.vn * self.den
        dnum == self.den * other.den * total
        g == GCD(GCD(Abs(hnum), Abs(vnum)), dnum)
    IN  IF total = 0
        THEN [self EXCEPT !.fips = self.fips \cup other.fips]
        ELSE [oid |-> self.oid, fips |-> self.fips \cup other.fips,
              hn |-> hnum \div g, vn |-> vnum \div g, den |-> dnum \div g,
              pop |-> total,
              flh |-> WeightedFloat(self.flh, self.pop, other.flh, other.pop,
                                    hnum, dnum),
              flv |-> WeightedFloat(self.flv, self.pop, other.flv, other.pop,
                                    vnum, dnum)]

(***************************************************************************)
(* Comparisons of floats: the set of the possible outcomes.                *)
(***************************************************************************)
\* the distance d is computed from centers without rounding error
ExactEnds(d) == d.inf \/ \A i \in 1..4 : IsExact(d.ends[i])

\* two distances that stand for the same value are the same float
SameFloat(a, b) ==
    \/ ExactEnds(a) /\ ExactEnds(b)
    \/ a.ends = b.ends
    \/ a.ends = <<b.ends[3], b.ends[4], b.ends[1], b.ends[2]>>

\* a < b and a <= b on distances
Lt(a, b) ==
    IF ~DistEq(a, b) THEN {DistLess(a, b)}
    ELSE IF SameFloat(a, b) THEN {FALSE} ELSE BOOLEAN

\* a < b where b is the minimum of the distances in seen: a float that is in
\* seen is not below their minimum
LtMin(a, b, seen) ==
    IF ~DistEq(a, b) THEN {DistLess(a, b)}
    ELSE IF \E d \in seen : DistEq(d, a) /\ SameFloat(d, a) THEN {FALSE}
         ELSE Lt(a, b)

Le(a, b) ==
    IF ~DistEq(a, b) THEN {DistLess(a, b)}
    ELSE IF SameFloat(a, b) THEN {TRUE} ELSE BOOLEAN

\* a.horiz_center() < b.horiz_center() and a.vert_center() < b.vert_center()
HorizLt(a, b) ==
    IF HorizLess(a, b) \/ HorizLess(b, a) THEN {HorizLess(a, b)}
    ELSE IF a.flh = b.flh \/ (IsExact(a.flh) /\ IsExact(b.flh)) THEN {FALSE}
         ELSE BOOLEAN

VertLt(a, b) ==
    IF VertLess(a, b) \/ VertLess(b, a) THEN {VertLess(a, b)}
    ELSE IF a.flv = b.flv \/ (IsExact(a.flv) /\ IsExact(b.flv)) THEN {FALSE}
         ELSE BOOLEAN

(***************************************************************************)
(* list.sort(key = ..., reverse = ...): a stable sort.  Before(key, x, e)  *)
(* holds the outcomes of "x sorts strictly before e" under the key; x is   *)
(* placed after every element it does not sort strictly before, so equal   *)
(* keys keep their order (also with reverse = True).  SortStable is the    *)
(* set of the lists that the sort can leave.                               *)
(***************************************************************************)
Before(key, x, e) ==
    CASE key = "horiz_center" -> HorizLt(x, e)
      [] key = "vert_center" -> VertLt(x, e)
      [] key = "total_population_reverse" -> {x.pop > e.pop}

RECURSIVE InsertStable(_, _, _)
InsertStable(sorted, x, key) ==
    IF sorted = <<>> THEN {<<x>>}
    ELSE UNION {IF t
                THEN {Append(r, sorted[Len(sorted)]) :
                        r \in InsertStable(SubSeq(sorted, 1, Len(sorted) - 1), x, key)}
                ELSE {Append(sorted, x)} :
                t \in Before(key, x, sorted[Len(sorted)])}

RECURSIVE SortStable(_, _)
SortStable(list, key) ==
    IF list = <<>> THEN {<<>>}
    ELSE UNION {InsertStable(s, list[Len(list)], key) :
                  s \in SortStable(SubSeq(list, 1, Len(list) - 1), key)}

SortByHoriz(list) == SortStable(list, "horiz_center")
SortByVert(list) == SortStable(list, "vert_center")

\* the element of a set of one element
Only(S) == CHOOSE x \in S : TRUE

RECURSIVE Reverse(_)
Reverse(list) ==
    IF list = <<>> THEN <<>>
    ELSE Append(Reverse(SubSeq(list, 2, Len(list))), list[1])

\* variant: equal populations come out in reversed input order
SortByPopulationDesc_ties_reversed(list) ==
    Only(SortStable(Reverse(list), "total_population_reverse"))

\* populations are integers: the sort has one outcome
SortByPopulationDesc(list) == Only(SortStable(list, "total_population_reverse"))

\* list.index(c): the first position that holds the object c
RECURSIVE IndexFrom(_, _, _)
IndexFrom(list, c, k) ==
    IF k >= Len(list) THEN -1
    ELSE IF At(list, k).oid = c.oid THEN k ELSE IndexFrom(list, c, k + 1)

index(list, c) == IndexFrom(list, c, 0)

(***************************************************************************)
(* Closest pair.                                                           *)
(***************************************************************************)
pair_distance(list, i, j) ==
    <<distance(At(list, i), At(list, j)), Min(i, j), Max(i, j)>>

\* the distances that slow_closest_pair has computed before it comes to the
\* pair (i1, i2)
SlowSeen(list, i1, i2) ==
    {pair_distance(list, p[1], p[2])[1] :
       p \in {q \in (0..(Len(list) - 1)) \X (0..(Len(list) - 1)) :
                q[1] # q[2] /\ (q[1] < i1 \/ (q[1] = i1 /\ q[2] < i2))}}

\* The inner loop of slow_closest_pair, over idx_2 for one idx_1
RECURSIVE SlowInner(_, _, _, _)
SlowInner(list, i1, i2, dist_d) ==
    IF i2 >= Len(list) THEN {dist_d}
    ELSE IF i1 = i2 THEN SlowInner(list, i1, i2 + 1, dist_d)
         ELSE UNION {IF t
                     THEN SlowInner(list, i1, i2 + 1,
                                    <<pair_distance(list, i1, i2)[1], i1, i2>>)
                     ELSE SlowInner(list, i1, i2 + 1, dist_d) :
                     t \in LtMin(pair_distance(list, i1, i2)[1], dist_d[1],
                                 SlowSeen(list, i1, i2))}

\* The outer loop of slow_closest_pair, over idx_1
RECURSIVE SlowOuter(_, _, _)
SlowOuter(list, i1, dist_d) ==
    IF i1 >= Len(list) THEN {dist_d}
    ELSE UNION {SlowOuter(list, i1 + 1, d) : d \in SlowInner(list, i1, 0, dist_d)}

slow_closest_pair(list) == SlowOuter(list, 0, <<Inf, -1, -1>>)

\* The midline 0.5 * (a.horiz_center() + b.horiz_center()), as a rational;
\* exact says that it carries no rounding error
Mid(a, b) ==
    [num |-> a.hn * b.den + b.hn * a.den, den |-> 2 * a.den * b.den,
     exact |-> IsExact(a.flh) /\ IsExact(b.flh)]

\* abs(c.horiz_center() - horiz_center) <= half_width on the values
InStripValue(c, horiz_center, half_width) ==
    half_width.inf
    \/ (c.hn * horiz_center.den - horiz_center.num * c.den)
         * (c.hn * horiz_center.den - horiz_center.num * c.den) * half_width.den
       <= half_width.num * (c.den * horiz_center.den) * (c.den * horiz_center.den)

\* abs(c.horiz_center() - horiz_center) = half_width on the values
OnStripEdge(c, horiz_center, half_width) ==
    /\ ~half_width.inf
    /\ (c.hn * horiz_center.den - horiz_center.num * c.den)
         * (c.hn * horiz_center.den - horiz_center.num * c.den) * half_width.den
       = half_width.num * (c.den * horiz_center.den) * (c.den * horiz_center.den)

\* abs(c.horiz_center() - horiz_center) <= half_width
InStrip(c, horiz_center, half_width) ==
    IF ~OnStripEdge(c, horiz_center, half_width)
    THEN {InStripValue(c, horiz_center, half_width)}
    ELSE IF IsExact(c.flh) /\ horiz_center.exact /\ ExactEnds(half_width)
         THEN {TRUE} ELSE BOOLEAN

\* The loop that collects list_s: the clusters of list that lie in the strip
RECURSIVE StripSelect(_, _, _)
StripSelect(list, horiz_center, half_width) ==
    IF list = <<>> THEN {<<>>}
    ELSE UNION {{IF t THEN Append(r, list[Len(list)]) ELSE r :
                   t \in InStrip(list[Len(list)], horiz_center, half_width)} :
                r \in StripSelect(SubSeq(list, 1, Len(list) - 1),
                                  horiz_center, half_width)}

\* range(idx_1 + 1, min(idx_1 + 3, idx_n - 1) + 1) looks at the next 3 entries
StripWindow == 3

\* the distances that closest_pair_strip has computed before it comes to the
\* pair (i1, i2) of list_s
StripSeen(list_s, window, i1, i2) ==
    {pair_distance(list_s, p[1], p[2])[1] :
       p \in {q \in (0..(Len(list_s) - 1)) \X (0..(Len(list_s) - 1)) :
                /\ q[1] < q[2] /\ q[2] <= q[1] + window
                /\ (q[1] < i1 \/ (q[1] = i1 /\ q[2] < i2))}}

\* The inner loop of closest_pair_strip, over idx_2 for one idx_1
RECURSIVE StripInner(_, _, _, _, _, _)
StripInner(list, list_s, window, i1, i2, dist_d) ==
    IF i2 > Min(i1 + window, Len(list_s) - 1) THEN {dist_d}
    ELSE IF i1 = i2 THEN StripInner(list, list_s, window, i1, i2 + 1, dist_d)
         ELSE UNION {IF t
                     THEN StripInner(list, list_s, window, i1, i2 + 1,
                                     <<pair_distance(list_s, i1, i2)[1],
                                       index(list, At(list_s, i1)),
                                       index(list, At(list_s, i2))>>)
                     ELSE StripInner(list, list_s, window, i1, i2 + 1, dist_d) :
                     t \in LtMin(pair_distance(list_s, i1, i2)[1], dist_d[1],
                                 StripSeen(list_s, window, i1, i2))}

\* if dist_d[1] > dist_d[2]: swap them
StripSwap(dist_d) ==
    IF dist_d[2] > dist_d[3] THEN <<dist_d[1], dist_d[3], dist_d[2]>> ELSE dist_d

\* The outer loop of closest_pair_strip, over idx_1
RECURSIVE StripOuter(_, _, _, _, _)
StripOuter(list, list_s, window, i1, dist_d) ==
    IF i1 >= Len(list_s) - 1 THEN {dist_d}
    ELSE UNION {StripOuter(list, list_s, window, i1 + 1, StripSwap(d)) :
                  d \in StripInner(list, list_s, window, i1, i1 + 1, dist_d)}

StripSearch(list, horiz_center, half_width, window) ==
    UNION {UNION {StripOuter(list, list_s, window, 0, <<Inf, -1, -1>>) :
                    list_s \in SortByVert(selected)} :
           selected \in StripSelect(list, horiz_center, half_width)}

\* variant: each strip entry is compared with the next 2 entries only
closest_pair_strip_next_two(list, horiz_center, half_width) ==
    StripSearch(list, horiz_center, half_width, StripWindow - 1)

closest_pair_strip(list, horiz_center, half_width) ==
    StripSearch(list, horiz_center, half_width, StripWindow)

\* The steps of the divide-and-conquer branch; each takes the values computed
\* so far as parameters.
\* variant: the comparison with the strip result is inverted
FastPick_inverted(dist_d_temp, strip_d) ==
    {IF t THEN dist_d_temp ELSE strip_d : t \in Le(strip_d[1], dist_d_temp[1])}

FastPick(dist_d_temp, strip_d) ==
    {IF t THEN dist_d_temp ELSE strip_d : t \in Le(dist_d_temp[1], strip_d[1])}

FastStrip(list, idx_m, dist_d_temp) ==
    UNION {FastPick(dist_d_temp, strip_d) :
             strip_d \in closest_pair_strip(list,
                                            Mid(At(list, idx_m - 1), At(list, idx_m)),
                                            dist_d_temp[1])}

\* variant: the indices of the right half are not shifted by idx_m
FastHalves_unshifted(list, idx_m, dist_left, dist_right) ==
    UNION {FastStrip(list, idx_m, IF t THEN dist_left ELSE dist_right) :
             t \in Le(dist_left[1], dist_right[1])}

FastHalves(list, idx_m, dist_left, dist_right) ==
    UNION {FastStrip(list, idx_m,
                     IF t THEN dist_left
                     ELSE <<dist_right[1], dist_right[2] + idx_m,
                            dist_right[3] + idx_m>>) :
             t \in Le(dist_left[1], dist_right[1])}

RECURSIVE fast_closest_pair(_)
fast_closest_pair(list) ==
    IF Len(list) <= 3 THEN slow_closest_pair(list)
    ELSE UNION {UNION {FastHalves(list, Len(list) \div 2, dist_left, dist_right) :
                         dist_right \in fast_closest_pair(
                                           SubSeq(list, Len(list) \div 2 + 1, Len(list)))} :
                dist_left \in fast_closest_pair(SubSeq(list, 1, Len(list) \div 2))}

(***************************************************************************)
(* Calls of the closest-pair functions on a list of singleton clusters.    *)
(***************************************************************************)
\* no call of dist_vs_clusters is in progress
NoSweep ==
    [phase |-> "none", min_clusters |-> 0, max_clusters |-> 0,
     kmeans_distortions |-> <<>>, hierarch_distort |-> <<>>]

IsSortedByHoriz(list) ==
    \A i \in 1..(Len(list) - 1) : ~HorizLess(list[i + 1], list[i])

Idle(list) ==
    /\ op = "none"
    /\ pc = "idle"
    /\ cluster_list = list
    /\ input_list = list
    /\ num_clusters = 0
    /\ num_iterations = 0
    /\ cluster_list_temp = <<>>
    /\ starting_clusters = <<>>
    /\ c_list = <<>>
    /\ round = 0
    /\ idx_1 = 0
    /\ merges = 0
    /\ result = <<>>
    /\ err = ""
    /\ sweep = NoSweep

\* Lists of up to MaxPts clusters in ascending horizontal order, and every
\* list of up to MaxAny clusters.
InitPair ==
    \E n \in 0..MaxPts :
      \E xs \in {f \in [1..n -> XS] :
                   n <= MaxAny \/ \A i \in 1..(n - 1) : f[i] <= f[i + 1]} :
        \E ys \in [1..n -> YS] :
          Idle([i \in 1..n |-> Cluster(i, {i}, xs[i], ys[i], 1)])

call_slow_closest_pair ==
    /\ pc = "idle"
    /\ op' = "slow_closest_pair"
    /\ result' \in slow_closest_pair(cluster_list)
    /\ pc' = "done"
    /\ UNCHANGED <<sweep, cluster_list, input_list, num_clusters, num_iterations,
                   cluster_list_temp, starting_clusters, c_list, round, idx_1,
                   merges, err>>

call_fast_closest_pair ==
    /\ pc = "idle"
    /\ op' = "fast_closest_pair"
    /\ result' \in fast_closest_pair(cluster_list)
    /\ pc' = "done"
    /\ UNCHANGED <<sweep, cluster_list, input_list, num_clusters, num_iterations,
                   cluster_list_temp, starting_clusters, c_list, round, idx_1,
                   merges, err>>

NextPair == call_slow_closest_pair \/ call_fast_closest_pair

SpecPair == InitPair /\ [][NextPair]_vars

(***************************************************************************)
(* hierarch_clustering.                                                    *)
(***************************************************************************)
\* Lists of up to MaxN singleton clusters of population 1 with pairwise
\* distinct identifiers
InitHierarch ==
    \E n \in 0..MaxN :
      \E xs \in [1..n -> GridX] :
        \E ys \in [1..n -> GridY] :
          Idle([i \in 1..n |-> Cluster(i, {i}, xs[i], ys[i], 1)])

Has(list, c) == \E i \in DOMAIN list : list[i].oid = c.oid

\* list.remove(c): drops the first position that holds the object c
remove(list, c) ==
    LET k == index(list, c)
    IN  SubSeq(list, 1, k) \o SubSeq(list, k + 2, Len(list))

\* variant: the merged cluster is not appended
hierarch_merge_no_append(sorted) ==
    {LET first_point == At(sorted, closest_pair[2])
         second_point == At(sorted, closest_pair[3])
     IN  IF ~InRange(sorted, closest_pair[2]) \/ ~InRange(sorted, closest_pair[3])
         THEN [list |-> sorted, err |-> "IndexError"]
         ELSE IF first_point.oid = second_point.oid
              THEN [list |-> remove(sorted, first_point), err |-> "ValueError"]
              ELSE [list |-> remove(remove(sorted, first_point), second_point),
                    err |-> ""] :
     closest_pair \in fast_closest_pair(sorted)}

\* variant: second_point is not removed
hierarch_merge_keep_second(sorted) ==
    {LET first_point == At(sorted, closest_pair[2])
         second_point == At(sorted, closest_pair[3])
         new_cluster == merge_clusters(first_point, second_point)
     IN  IF ~InRange(sorted, closest_pair[2]) \/ ~InRange(sorted, closest_pair[3])
         THEN [list |-> sorted, err |-> "IndexError"]
         ELSE [list |-> Append(remove(sorted, first_point), new_cluster),
               err |-> ""] :
     closest_pair \in fast_closest_pair(sorted)}

\* The rest of the loop body once closest_pair is known: [list, err]
MergePair(sorted, closest_pair) ==
    IF ~InRange(sorted, closest_pair[2]) \/ ~InRange(sorted, closest_pair[3])
    THEN [list |-> sorted, err |-> "IndexError"]
    ELSE LET first_point == At(sorted, closest_pair[2])
             second_point == At(sorted, closest_pair[3])
             new_cluster == merge_clusters(first_point, second_point)
             \* the merge changes the object first_point wherever it is held
             mutated == [i \in DOMAIN sorted |->
                           IF sorted[i].oid = first_point.oid
                           THEN new_cluster ELSE sorted[i]]
             appended == Append(mutated, new_cluster)
             removed_1 == remove(appended, first_point)
         IN  IF ~Has(removed_1, second_point)
             THEN [list |-> removed_1, err |-> "ValueError"]
             ELSE [list |-> remove(removed_1, second_point), err |-> ""]

\* The body of the while loop on the list, which the loop has just sorted in
\* place: the possible [list, err], err naming the exception that ends the
\* call.
hierarch_merge(sorted) ==
    {MergePair(sorted, closest_pair) : closest_pair \in fast_closest_pair(sorted)}

\* variant: the loop also runs when the list has exactly num_clusters entries
hierarch_continue_at_target(list, n) == Len(list) >= n

\* the condition of the while loop
hierarch_continue(list, n) == Len(list) > n

\* variant: the list is handed on as it is
hierarch_sort_skipped(list) == {list}

\* cluster_list.sort(key = lambda item: item.horiz_center())
hierarch_sort(list) == SortByHoriz(list)

call_hierarch_clustering ==
    /\ pc = "idle"
    /\ \E n \in -1..(MaxN + 1) : num_clusters' = n
    /\ op' = "hierarch_clustering"
    /\ pc' = "hierarch_loop"
    /\ UNCHANGED <<sweep, cluster_list, input_list, num_iterations, cluster_list_temp,
                   starting_clusters, c_list, round, idx_1, merges, result, err>>

\* one iteration of the while loop
hierarch_iterate ==
    /\ pc = "hierarch_loop"
    /\ hierarch_continue(cluster_list, num_clusters)
    /\ \E sorted \in hierarch_sort(cluster_list) :
         \E step \in hierarch_merge(sorted) :
           /\ cluster_list' = step.list
           /\ err' = step.err
           /\ pc' = IF step.err = "" THEN "hierarch_loop" ELSE "error"
           /\ merges' = IF step.err = "" THEN merges + 1 ELSE merges
    /\ UNCHANGED <<sweep, op, input_list, num_clusters, num_iterations,
                   cluster_list_temp, starting_clusters, c_list, round, idx_1,
                   result>>

\* the loop condition fails: return cluster_list
hierarch_return ==
    /\ pc = "hierarch_loop"
    /\ ~hierarch_continue(cluster_list, num_clusters)
    /\ result' = cluster_list
    /\ pc' = "done"
    /\ UNCHANGED <<sweep, op, cluster_list, input_list, num_clusters, num_iterations,
                   cluster_list_temp, starting_clusters, c_list, round, idx_1,
                   merges, err>>

NextHierarch == call_hierarch_clustering \/ hierarch_iterate \/ hierarch_return

SpecHierarch == InitHierarch /\ [][NextHierarch]_vars

(***************************************************************************)
(* kmeans_clustering.                                                      *)
(***************************************************************************)
\* Lists of up to MaxK singleton clusters with pairwise distinct identifiers
InitKMeans ==
    \E n \in 0..MaxK :
      \E pts \in [1..n -> KPoints] :
        \E ps \in [1..n -> Pops] :
          Idle([i \in 1..n |-> Cluster(i, {i}, pts[i][1], pts[i][2], ps[i])])

\* list[:k] for k >= 0
Prefix(list, k) == SubSeq(list, 1, Min(k, Len(list)))

\* alg_cluster.Cluster(set([]), 0, 0, 1, 0): the accumulator idx of a round,
\* a new object
Accumulator(n_size, k, rnd, idx) == Cluster(n_size + rnd * k + idx + 1, {}, 0, 0, 1)

\* variant: an equally near center met later in the scan replaces the earlier one
RECURSIVE NearestScan_last_tie(_, _, _, _, _, _)
NearestScan_last_tie(c, centers, k, idx_2, min_dist, min_index) ==
    IF idx_2 >= k THEN {[err |-> "", min_index |-> min_index]}
    ELSE IF ~InRange(centers, idx_2)
         THEN {[err |-> "IndexError", min_index |-> min_index]}
         ELSE UNION {IF t
                     THEN NearestScan_last_tie(c, centers, k, idx_2 + 1,
                                               distance(c, At(centers, idx_2)), idx_2)
                     ELSE NearestScan_last_tie(c, centers, k, idx_2 + 1,
                                               min_dist, min_index) :
                     t \in Le(distance(c, At(centers, idx_2)), min_dist)}

\* The loop over idx_2 for one input cluster c: the possible [err, min_index]
RECURSIVE NearestScan(_, _, _, _, _, _)
NearestScan(c, centers, k, idx_2, min_dist, min_index) ==
    IF idx_2 >= k THEN {[err |-> "", min_index |-> min_index]}
    ELSE IF ~InRange(centers, idx_2)
         THEN {[err |-> "IndexError", min_index |-> min_index]}
         ELSE UNION {IF t
                     THEN NearestScan(c, centers, k, idx_2 + 1,
                                      distance(c, At(centers, idx_2)), idx_2)
                     ELSE NearestScan(c, centers, k, idx_2 + 1, min_dist, min_index) :
                     t \in LtMin(distance(c, At(centers, idx_2)), min_dist,
                                 {distance(c, At(centers, j)) : j \in 0..(idx_2 - 1)})}

\* A list holds references: Rebind(list, objects) is the list as it reads once
\* the objects have the state given in objects (an object is known by its oid).
Rebind(list, objects) ==
    [i \in DOMAIN list |->
        IF \E j \in DOMAIN objects : objects[j].oid = list[i].oid
        THEN objects[CHOOSE j \in DOMAIN objects : objects[j].oid = list[i].oid]
        ELSE list[i]]

\* variant: the input cluster is the receiver of the merge and takes the
\* place of the accumulator
kmeans_assign_one_into_input(accs, centers, k, c) ==
    {IF scan.err # "" THEN [c_list |-> accs, err |-> scan.err]
     ELSE IF ~InRange(accs, scan.min_index)
          THEN [c_list |-> accs, err |-> "IndexError"]
          ELSE [c_list |-> [accs EXCEPT
                              ![IF scan.min_index >= 0 THEN scan.min_index + 1
                                ELSE Len(accs) + scan.min_index + 1] =
                                  merge_clusters(c, @)],
                err |-> ""] :
     scan \in NearestScan(c, centers, k, 0, Inf, -1)}

\* One iteration of the loop over idx_1: the possible [c_list, err]
kmeans_assign_one(accs, centers, k, c) ==
    {IF scan.err # "" THEN [c_list |-> accs, err |-> scan.err]
     ELSE IF ~InRange(accs, scan.min_index)
          THEN [c_list |-> accs, err |-> "IndexError"]
          ELSE [c_list |-> [accs EXCEPT
                              ![IF scan.min_index >= 0 THEN scan.min_index + 1
                                ELSE Len(accs) + scan.min_index + 1] =
                                  merge_clusters(@, c)],
                err |-> ""] :
     scan \in NearestScan(c, centers, k, 0, Inf, -1)}

\* variant: a center absorbs its accumulator instead of being replaced by it
kmeans_new_centers_carry_over(centers, accs, k) ==
    [starting_clusters |->
        [i \in 1..Len(centers) |->
            IF i <= k THEN merge_clusters(centers[i], accs[i]) ELSE centers[i]],
     err |-> IF k > Len(centers) THEN "IndexError" ELSE ""]

\* The loop over idx_3: [starting_clusters, err]
kmeans_new_centers(centers, accs, k) ==
    [starting_clusters |->
        [i \in 1..Len(centers) |-> IF i <= k THEN accs[i] ELSE centers[i]],
     err |-> IF k > Len(centers) THEN "IndexError" ELSE ""]

call_kmeans_clustering ==
    /\ pc = "idle"
    /\ \E k \in 1..(MaxK + 1) : num_clusters' = k
    /\ \E n \in Iterations : num_iterations' = n
    /\ op' = "kmeans_clustering"
    /\ cluster_list_temp' = SortByPopulationDesc(cluster_list)
    /\ starting_clusters' = Prefix(cluster_list_temp', num_clusters')
    /\ pc' = "kmeans_loop"
    /\ UNCHANGED <<sweep, cluster_list, input_list, c_list, round, idx_1, merges,
                   result, err>>

\* a round begins: num_clusters empty accumulators
kmeans_begin_round ==
    /\ pc = "kmeans_loop"
    /\ round < num_iterations
    /\ c_list' = [i \in 1..num_clusters |->
                    Accumulator(Len(cluster_list_temp), num_clusters, round, i - 1)]
    /\ idx_1' = 0
    /\ pc' = "kmeans_assign"
    /\ UNCHANGED <<sweep, op, cluster_list, input_list, num_clusters, num_iterations,
                   cluster_list_temp, starting_clusters, round, merges, result,
                   err>>

\* the input cluster idx_1 is merged into the accumulator of its nearest center
kmeans_assign ==
    /\ pc = "kmeans_assign"
    /\ idx_1 < Len(cluster_list_temp)
    /\ \E step \in kmeans_assign_one(c_list, starting_clusters, num_clusters,
                                      At(cluster_list_temp, idx_1)) :
           /\ c_list' = step.c_list
           \* merge_clusters changes its receiver in every list that holds it
           /\ cluster_list' = Rebind(cluster_list, step.c_list)
           /\ cluster_list_temp' = Rebind(cluster_list_temp, step.c_list)
           /\ starting_clusters' = Rebind(starting_clusters, step.c_list)
           /\ err' = step.err
           /\ pc' = IF step.err = "" THEN "kmeans_assign" ELSE "error"
           /\ idx_1' = IF step.err = "" THEN idx_1 + 1 ELSE idx_1
    /\ UNCHANGED <<sweep, op, input_list, num_clusters, num_iterations, round,
                   merges, result>>

\* the round ends: the accumulators become the centers
kmeans_end_round ==
    /\ pc = "kmeans_assign"
    /\ idx_1 >= Len(cluster_list_temp)
    /\ \E step \in {kmeans_new_centers(starting_clusters, c_list, num_clusters)} :
           /\ starting_clusters' = step.starting_clusters
           /\ err' = step.err
           /\ pc' = IF step.err = "" THEN "kmeans_loop" ELSE "error"
           /\ round' = IF step.err = "" THEN round + 1 ELSE round
    /\ UNCHANGED <<sweep, op, cluster_list, input_list, num_clusters, num_iterations,
                   cluster_list_temp, c_list, idx_1, merges, result>>

\* return starting_clusters
kmeans_return ==
    /\ pc = "kmeans_loop"
    /\ ~(round < num_iterations)
    /\ result' = starting_clusters
    /\ pc' = "done"
    /\ UNCHANGED <<sweep, op, cluster_list, input_list, num_clusters, num_iterations,
                   cluster_list_temp, starting_clusters, c_list, round, idx_1,
                   merges, err>>

NextKMeans ==
    \/ call_kmeans_clustering
    \/ kmeans_begin_round
    \/ kmeans_assign
    \/ kmeans_end_round
    \/ kmeans_return

SpecKMeans == InitKMeans /\ [][NextKMeans]_vars

(***************************************************************************)
(* compute_distortion and dist_vs_clusters.  The data table is the list of *)
(* singleton clusters as it was built from it, one row per identifier; a   *)
(* distortion is the exact rational [num, den].                            *)
(***************************************************************************)
RatAdd(a, b) ==
    LET n == a.num * b.den + b.num * a.den
        d == a.den * b.den
        g == GCD(n, d)
    IN  [num |-> n \div g, den |-> d \div g]

\* cluster_error: the sum over the members of the cluster of
\* population(row) * distance(center, row)^2, as a numerator over c.den^2
RECURSIVE ErrorNum(_, _, _)
ErrorNum(c, data_table, i) ==
    IF i > Len(data_table) THEN 0
    ELSE (IF data_table[i].fips \subseteq c.fips
          THEN data_table[i].pop
               * ((data_table[i].hn * c.den - c.hn) * (data_table[i].hn * c.den - c.hn)
                  + (data_table[i].vn * c.den - c.vn) * (data_table[i].vn * c.den - c.vn))
          ELSE 0)
         + ErrorNum(c, data_table, i + 1)

cluster_error(c, data_table) ==
    RatAdd([num |-> ErrorNum(c, data_table, 1), den |-> c.den * c.den],
           [num |-> 0, den |-> 1])

RECURSIVE compute_distortion(_, _)
compute_distortion(list, data_table) ==
    IF list = <<>> THEN [num |-> 0, den |-> 1]
    ELSE RatAdd(compute_distortion(SubSeq(list, 1, Len(list) - 1), data_table),
                cluster_error(list[Len(list)], data_table))

\* singleton_list: 1 to MaxK singleton clusters of population 1 with
\* pairwise distinct identifiers, one per row of the data table
\* (load_data_table returns no table without rows)
InitSweep ==
    \E n \in 1..MaxK :
      \E pts \in [1..n -> KPoints] :
        Idle([i \in 1..n |-> Cluster(i, {i}, pts[i][1], pts[i][2], 1)])

\* dist_vs_clusters is called: the first kmeans_clustering call of the sweep
call_dist_vs_clusters ==
    /\ pc = "idle"
    /\ \E lo \in 1..MaxK : \E hi \in lo..MaxK :
           /\ sweep' = [phase |-> "kmeans", min_clusters |-> lo,
                        max_clusters |-> hi, kmeans_distortions |-> <<>>,
                        hierarch_distort |-> <<>>]
           /\ num_clusters' = lo
    /\ \E n \in Iterations : num_iterations' = n
    /\ op' = "kmeans_clustering"
    /\ cluster_list_temp' = SortByPopulationDesc(cluster_list)
    /\ starting_clusters' = Prefix(cluster_list_temp', num_clusters')
    /\ pc' = "kmeans_loop"
    /\ UNCHANGED <<cluster_list, input_list, c_list, round, idx_1, merges,
                   result, err>>

\* a kmeans_clustering call of the sweep has returned: its distortion is
\* recorded, then the next count is run on singleton_list, or, after the
\* last count, hierarch_clustering is called on singleton_list
sweep_kmeans_returned ==
    /\ sweep.phase = "kmeans"
    /\ pc = "done"
    /\ \E dist \in {compute_distortion(result, input_list)} :
        IF num_clusters < sweep.max_clusters
        THEN /\ sweep' = [sweep EXCEPT !.kmeans_distortions = Append(@, dist)]
             /\ num_clusters' = num_clusters + 1
             /\ op' = "kmeans_clustering"
             /\ cluster_list_temp' = SortByPopulationDesc(cluster_list)
             /\ starting_clusters' = Prefix(cluster_list_temp', num_clusters')
             /\ c_list' = <<>>
             /\ round' = 0
             /\ idx_1' = 0
             /\ pc' = "kmeans_loop"
             /\ UNCHANGED <<cluster_list, input_list, num_iterations, merges,
                            result, err>>
        ELSE /\ sweep' = [sweep EXCEPT !.kmeans_distortions = Append(@, dist),
                                       !.phase = "hierarch"]
             /\ num_clusters' = sweep.max_clusters
             /\ op' = "hierarch_clustering"
             /\ pc' = "hierarch_loop"
             /\ UNCHANGED <<cluster_list, input_list, num_iterations,
                            cluster_list_temp, starting_clusters, c_list, round,
                            idx_1, merges, result, err>>

\* a hierarch_clustering call of the sweep has returned: its distortion is
\* recorded, then the same list is reduced to the next lower count, or the
\* two distortion lists are returned
sweep_hierarch_returned ==
    /\ sweep.phase = "hierarch"
    /\ pc = "done"
    /\ \E dist \in {compute_distortion(result, input_list)} :
        IF num_clusters > sweep.min_clusters
        THEN /\ sweep' = [sweep EXCEPT !.hierarch_distort = Append(@, dist)]
             /\ num_clusters' = num_clusters - 1
             /\ pc' = "hierarch_loop"
             /\ result' = result
        ELSE \* hierarch_distort.reverse() reverses the list in place
             /\ sweep' = [sweep EXCEPT !.hierarch_distort = Reverse(Append(@, dist)),
                                       !.phase = "done"]
             /\ num_clusters' = num_clusters
             /\ pc' = "done"
             /\ result' = <<sweep'.kmeans_distortions, sweep'.hierarch_distort>>
    /\ UNCHANGED <<op, cluster_list, input_list, num_iterations,
                   cluster_list_temp, starting_clusters, c_list, round, idx_1,
                   merges, err>>

NextSweep ==
    \/ call_dist_vs_clusters
    \/ kmeans_begin_round
    \/ kmeans_assign
    \/ kmeans_end_round
    \/ kmeans_return
    \/ sweep_kmeans_returned
    \/ hierarch_iterate
    \/ hierarch_return
    \/ sweep_hierarch_returned

\* direct calls of kmeans_clustering and the sweep, on the same inputs
SpecSweep == InitSweep /\ [][call_kmeans_clustering \/ NextSweep]_vars

(***************************************************************************)
(* sequential_clustering of src/alg_p3_viz.py: the caller's list is cut in *)
(* its own order into groups of len / num_clusters entries; the first      *)
(* cluster of a group enters the returned list and absorbs the rest of the *)
(* group, so clusters of the caller's list change in place.                *)
(*                                                                         *)
(* The group of an index is the floor of a quotient of floats (IEEE 754    *)
(* binary64, round to nearest, ties to even).  cluster_size is n / k       *)
(* rounded to 53 bits: with 2^52 <= n * 2^e / |k| < 2^53 it is q / 2^e for *)
(* the integer q nearest to n * 2^e / |k|.  cluster_idx / cluster_size is  *)
(* rounded again.  The floor differs from the floor of cluster_idx * k / n *)
(* only when that value is a whole number m other than 0 and the float     *)
(* quotient falls below m.                                                 *)
(***************************************************************************)
\* (x * 2^e) mod d, 10 doublings at a time while the product stays small
RECURSIVE ScaledMod(_, _, _)
ScaledMod(x, e, d) ==
    IF e = 0 THEN x % d
    ELSE IF e >= 10 /\ d <= 1048576
         THEN ScaledMod((1024 * (x % d)) % d, e - 10, d)
         ELSE ScaledMod((2 * (x % d)) % d, e - 1, d)

\* the l with 2^l <= x / y < 2^(l + 1), for x >= y and for x < y
RECURSIVE Log2Up(_, _, _)
Log2Up(x, y, l) == IF x >= 2 * y * Pow2(l) THEN Log2Up(x, y, l + 1) ELSE l

RECURSIVE Log2Down(_, _, _)
Log2Down(x, y, j) == IF x * Pow2(j) < y THEN Log2Down(x, y, j + 1) ELSE -j

FloorLog2(x, y) == IF x >= y THEN Log2Up(x, y, 0) ELSE Log2Down(x, y, 1)

\* cluster_size = float(n) / k: the scale e, the remainder rem of n * 2^e
\* by |k| (0 when the quotient is exact) and whether the quotient is rounded
\* away from 0
ClusterSize(n, k) ==
    LET e == 52 - FloorLog2(n, Abs(k))
        rem == ScaledMod(n, e, Abs(k))
        odd == (ScaledMod(n, e, 2 * Abs(k)) - rem) \div Abs(k)
    IN  [e |-> e, rem |-> rem,
         up |-> 2 * rem > Abs(k) \/ (2 * rem = Abs(k) /\ odd = 1)]

\* x * 2^s <= y, and x * 2^s < y, for integers x, y and any integer s
ScaledLE(x, s, y) == IF s >= 0 THEN x * Pow2(s) <= y ELSE x <= y * Pow2(-s)
ScaledLess(x, s, y) == IF s >= 0 THEN x * Pow2(s) < y ELSE x < y * Pow2(-s)

\* cluster_idx / cluster_size rounds to the whole number m that
\* cluster_idx * k / n is
RoundsToWhole(m, n, k) ==
    LET size == ClusterSize(n, k)
        a == FloorLog2(Abs(m), 1)
    IN  \/ size.rem = 0
        \/ m > 0 /\ ~size.up
        \/ m > 0 /\ size.up
             /\ ScaledLE(m * (Abs(k) - size.rem),
                         (IF m = Pow2(a) THEN 54 ELSE 53) - a - size.e, n)
        \/ m < 0 /\ size.up
        \/ m < 0 /\ ~size.up
             /\ ScaledLess((-m) * size.rem, 53 - a - size.e, n)

\* math.floor(cluster_idx / cluster_size) with cluster_size = float(n) / k
GroupOf(cluster_idx, n, k) ==
    IF (cluster_idx * k) % n # 0 \/ cluster_idx * k = 0
    THEN (cluster_idx * k) \div n
    ELSE IF RoundsToWhole((cluster_idx * k) \div n, n, k)
         THEN (cluster_idx * k) \div n
         ELSE (cluster_idx * k) \div n - 1

\* The loop over cluster_idx: [singleton_list, cluster_list, err], the
\* caller's list as it reads afterwards, the local list and the exception
RECURSIVE SequentialLoop(_, _, _, _)
SequentialLoop(singleton_list, k, cluster_idx, out) ==
    IF cluster_idx >= Len(singleton_list)
    THEN [singleton_list |-> singleton_list, cluster_list |-> out, err |-> ""]
    ELSE IF GroupOf(cluster_idx, Len(singleton_list), k)
              # GroupOf(cluster_idx - 1, Len(singleton_list), k)
         THEN SequentialLoop(singleton_list, k, cluster_idx + 1,
                             Append(out, At(singleton_list, cluster_idx)))
         ELSE IF out = <<>>
              THEN [singleton_list |-> singleton_list, cluster_list |-> out,
                    err |-> "IndexError"]
              ELSE SequentialLoop(
                       Rebind(singleton_list,
                              <<merge_clusters(out[Len(out)], At(singleton_list, cluster_idx))>>),
                       k, cluster_idx + 1,
                       [out EXCEPT ![Len(out)] =
                            merge_clusters(@, At(singleton_list, cluster_idx))])

\* sequential_clustering(singleton_list, num_clusters)
sequential_clustering(singleton_list, k) ==
    IF k = 0
    THEN [singleton_list |-> singleton_list, cluster_list |-> <<>>,
          err |-> "ZeroDivisionError"]
    ELSE SequentialLoop(singleton_list, k, 0, <<>>)

call_sequential_clustering ==
    /\ pc = "idle"
    /\ op' = "sequential_clustering"
    /\ \E k \in -1..(MaxK + 1) :
         /\ num_clusters' = k
         /\ \E run \in {sequential_clustering(cluster_list, k)} :
              /\ cluster_list' = run.singleton_list
              /\ result' = run.cluster_list
              /\ err' = run.err
              /\ pc' = IF run.err = "" THEN "done" ELSE "error"
    /\ UNCHANGED <<sweep, input_list, num_iterations, cluster_list_temp,
                   starting_clusters, c_list, round, idx_1, merges>>

NextSequential == call_sequential_clustering

SpecSequential == InitKMeans /\ [][NextSequential]_vars

(***************************************************************************)
(* All direct calls of the functions together; SpecSweep above drives the  *)
(* same steps of kmeans_clustering and hierarch_clustering from their      *)
(* caller dist_vs_clusters.                                                *)
(***************************************************************************)
Init == InitPair \/ InitHierarch \/ InitKMeans

Next == NextPair \/ NextHierarch \/ NextKMeans \/ NextSequential

Spec == Init /\ [][Next]_vars

(***************************************************************************)
(* Properties.                                                             *)
(***************************************************************************)
RECURSIVE SumPop(_)
SumPop(list) == IF list = <<>> THEN 0 ELSE list[1].pop + SumPop(Tail(list))

Members(list) == UNION {list[i].fips : i \in DOMAIN list}

PairwiseDisjoint(list) ==
    \A i, j \in DOMAIN list : i # j => list[i].fips \cap list[j].fips = {}

\* t = (dist, i, j) names a pair of list with i < j, and dist is its distance
ValidTriple(list, t) ==
    /\ 0 <= t[2] /\ t[2] < t[3] /\ t[3] < Len(list)
    /\ ~t[1].inf
    /\ DistEq(t[1], distance(At(list, t[2]), At(list, t[3])))

LeftHalf(list) == SubSeq(list, 1, Len(list) \div 2)
RightHalf(list) == SubSeq(list, Len(list) \div 2 + 1, Len(list))

\* the best distance of the two halves, the strip results and the strip
\* lists of the top-level call: what each can be
HalvesBest(list) ==
    {IF DistLE(l[1], r[1]) THEN l[1] ELSE r[1] :
       l \in fast_closest_pair(LeftHalf(list)),
       r \in fast_closest_pair(RightHalf(list))}

TopMid(list) == Mid(At(list, Len(list) \div 2 - 1), At(list, Len(list) \div 2))

TopStrip(list) ==
    UNION {closest_pair_strip(list, TopMid(list), best) : best \in HalvesBest(list)}

\* the clusters of list that lie in the strip of the top-level call
TopStripList(list) ==
    UNION {StripSelect(list, TopMid(list), best) : best \in HalvesBest(list)}

\* the results of fast_closest_pair and of closest_pair_strip are valid at
\* every depth of the recursion on list
RECURSIVE ValidAtEveryDepth(_)
ValidAtEveryDepth(list) ==
    /\ \A t \in fast_closest_pair(list) : ValidTriple(list, t)
    /\ Len(list) > 3 =>
         /\ ValidAtEveryDepth(LeftHalf(list))
         /\ ValidAtEveryDepth(RightHalf(list))
         /\ \A t \in TopStrip(list) : t[1].inf \/ ValidTriple(list, t)

FastDone ==
    op = "fast_closest_pair" /\ pc = "done" /\ IsSortedByHoriz(cluster_list)

SlowDone == op = "slow_closest_pair" /\ pc = "done"

\* C1: on every list of at least 2 clusters in ascending horizontal order,
\* fast_closest_pair returns the minimum distance that slow_closest_pair
\* returns; the strip search with its window of 3 misses no closer pair.
ThmC1 ==
    (FastDone /\ Len(cluster_list) >= 2) =>
        \A slow \in slow_closest_pair(cluster_list) : DistEq(result[1], slow[1])

\* a list whose closest pair straddles the halves and is strictly closer
\* than the best pair of either half, with at least 5 clusters in the strip
WitC1 ==
    /\ FastDone
    /\ Len(cluster_list) >= 5
    /\ \A list_s \in TopStripList(cluster_list) : Len(list_s) >= 5
    /\ \A best \in HalvesBest(cluster_list) : DistLess(result[1], best)
    /\ result[2] < Len(cluster_list) \div 2
    /\ result[3] >= Len(cluster_list) \div 2

HierarchRunning ==
    op = "hierarch_clustering" /\ num_clusters >= 1

\* C2: while hierarch_clustering runs on singletons with distinct identifiers
\* and a target of at least 1, the member sets of the list are pairwise
\* disjoint, cover the original identifiers, and the populations add up to
\* the original total; a run to 1 returns one cluster holding everything.
ThmC2 ==
    HierarchRunning =>
        /\ pc # "error"
        /\ PairwiseDisjoint(cluster_list)
        /\ Members(cluster_list) = Members(input_list)
        /\ SumPop(cluster_list) = SumPop(input_list)
        /\ (pc = "done" /\ num_clusters = 1 /\ Len(input_list) >= 1) =>
              /\ Len(result) = 1
              /\ result[1].fips = Members(input_list)
              /\ result[1].pop = SumPop(input_list)

\* a run from 4 singletons down to 1 cluster has returned
WitC2 ==
    /\ HierarchRunning /\ pc = "done"
    /\ num_clusters = 1 /\ Len(input_list) = 4 /\ merges = 3

\* C3: for a target between 1 and the list length, hierarch_clustering
\* terminates and returns exactly target clusters, every loop iteration
\* making the list one shorter: after m iterations the list has m entries
\* fewer than at the call and never fewer than target, the next iteration
\* raises nothing, and the call returns after length - target iterations.
ThmC3 ==
    ( /\ op = "hierarch_clustering"
      /\ 1 <= num_clusters /\ num_clusters <= Len(input_list) ) =>
        /\ pc \in {"hierarch_loop", "done"}
        /\ Len(cluster_list) = Len(input_list) - merges
        /\ Len(cluster_list) >= num_clusters
        /\ (pc = "hierarch_loop" /\ hierarch_continue(cluster_list, num_clusters)) =>
              \A sorted \in hierarch_sort(cluster_list) :
                  \A step \in hierarch_merge(sorted) : step.err = ""
        /\ pc = "done" =>
              /\ Len(result) = num_clusters
              /\ merges = Len(input_list) - num_clusters

\* a run that merged twice and returned more than one cluster
WitC3 ==
    /\ HierarchRunning /\ pc = "done"
    /\ merges = 2 /\ Len(result) = 2 /\ num_clusters = 2

KMeansDone == op = "kmeans_clustering" /\ pc = "done"

\* C4: kmeans_clustering returns exactly k clusters for every k >= 1 and
\* every iteration count, also when k exceeds the number of inputs: the call
\* neither fails nor returns fewer than k clusters.
CexC4 ==
    op = "kmeans_clustering" =>
        /\ pc # "error"
        /\ pc = "done" => Len(result) = num_clusters

\* the population of the inputs whose identifiers are in fips
RECURSIVE PopOf(_, _)
PopOf(list, fips) ==
    IF list = <<>> THEN 0
    ELSE (IF list[1].fips \subseteq fips THEN list[1].pop ELSE 0)
         + PopOf(Tail(list), fips)

\* C5: every accumulator of a round starts with population 0, so after at
\* least one iteration each returned cluster has the population of the
\* inputs assigned to it, and the returned populations add up to the input
\* total.
CexC5 ==
    /\ (op = "kmeans_clustering" /\ pc = "kmeans_assign" /\ idx_1 = 0) =>
          \A i \in DOMAIN c_list : c_list[i].pop = 0
    /\ (KMeansDone /\ num_iterations >= 1) =>
          /\ \A i \in DOMAIN result :
                result[i].pop = PopOf(input_list, result[i].fips)
          /\ SumPop(result) = SumPop(input_list)

\* C6: a target of 0 or less is rejected: the call fails, merges nothing and
\* returns no clustering.
CexC6 ==
    (op = "hierarch_clustering" /\ num_clusters <= 0) =>
        /\ merges = 0
        /\ cluster_list = input_list
        /\ pc # "done"

\* position of the returned cluster i in the input list (the identity of a
\* singleton input is its position)
InputPos(c) == c.oid

\* x comes before y in the population-descending order with ties in input order
SeedBefore(list, x, y) ==
    list[x].pop > list[y].pop \/ (list[x].pop = list[y].pop /\ x < y)

\* C7: with 0 iterations and k at most the number of inputs, the result is
\* the k inputs of largest population, in descending population with ties in
\* input order, each returned as it was passed.
ThmC7 ==
    (KMeansDone /\ num_iterations = 0 /\ num_clusters <= Len(input_list)) =>
        /\ Len(result) = num_clusters
        /\ \A i \in DOMAIN result :
              /\ InputPos(result[i]) \in DOMAIN input_list
              /\ result[i] = input_list[InputPos(result[i])]
        /\ \A i, j \in DOMAIN result :
              i < j => SeedBefore(input_list, InputPos(result[i]), InputPos(result[j]))
        /\ \A m \in DOMAIN input_list :
              (\A i \in DOMAIN result : InputPos(result[i]) # m) =>
                  \A i \in DOMAIN result :
                      SeedBefore(input_list, InputPos(result[i]), m)

\* 2 seeds out of 3 inputs: the largest input is last in the input, and the
\* two others tie, so the tie decides which of them is the second seed
WitC7 ==
    /\ KMeansDone /\ num_iterations = 0
    /\ num_clusters = 2 /\ Len(input_list) = 3
    /\ input_list[1].pop = 1 /\ input_list[2].pop = 1 /\ input_list[3].pop = 2
    /\ InputPos(result[1]) = 3 /\ InputPos(result[2]) = 1

\* C8: on every list of at least 2 clusters, slow_closest_pair returns
\* (dist, i, j) with 0 <= i < j < len and dist the distance of list[i] and
\* list[j]; so does fast_closest_pair on a horizontally sorted list, at every
\* depth of its recursion, with right-half and strip indices in the index
\* space of the list of that call.
ThmC8 ==
    /\ (SlowDone /\ Len(cluster_list) >= 2) => ValidTriple(cluster_list, result)
    /\ (FastDone /\ Len(cluster_list) >= 2) =>
          /\ ValidTriple(cluster_list, result)
          /\ ValidAtEveryDepth(cluster_list)

\* fast_closest_pair returned a pair of the right half, whose indices it
\* shifted, of a list that it split
WitC8 ==
    /\ FastDone
    /\ Len(cluster_list) >= 4
    /\ result[2] >= Len(cluster_list) \div 2
    /\ ValidTriple(cluster_list, result)

\* the points (0,0), (1,0), (0,5), (1,5), population 1 each, in any order
IsScenario(list) ==
    /\ Len(list) = 4
    /\ {<<list[i].hn, list[i].vn, list[i].den, list[i].pop>> : i \in DOMAIN list}
         = {<<0, 0, 1, 1>>, <<1, 0, 1, 1>>, <<0, 5, 1, 1>>, <<1, 5, 1, 1>>}

\* the identifiers of the inputs with vertical coordinate y
AtHeight(list, y) == {i \in DOMAIN list : list[i].vn = y * list[i].den}

\* c has its center at (1/2, y)
CenterIsHalf(c, y) == 2 * c.hn = c.den /\ c.vn = y * c.den

\* C9: reducing the four points (0,0), (1,0), (0,5), (1,5) of population 1
\* to 2 clusters groups {(0,0),(1,0)} and {(0,5),(1,5)}, with the centers
\* (0.5,0) and (0.5,5).
ThmC9 ==
    ( /\ op = "hierarch_clustering" /\ pc = "done"
      /\ num_clusters = 2 /\ IsScenario(input_list) ) =>
        /\ Len(result) = 2
        /\ \E i, j \in DOMAIN result :
              /\ i # j
              /\ result[i].fips = AtHeight(input_list, 0)
              /\ CenterIsHalf(result[i], 0)
              /\ result[j].fips = AtHeight(input_list, 5)
              /\ CenterIsHalf(result[j], 5)

\* the reduction of the four points, given in the order of the scenario, to
\* 2 clusters has returned
WitC9 ==
    /\ op = "hierarch_clustering" /\ pc = "done" /\ num_clusters = 2
    /\ IsScenario(input_list)
    /\ input_list[1].hn = 0 /\ input_list[1].vn = 0
    /\ input_list[2].hn = 1 /\ input_list[2].vn = 0
    /\ input_list[3].hn = 0 /\ input_list[3].vn = 5
    /\ merges = 2

\* C10: with a target of at least 1 that is at least the list length,
\* hierarch_clustering merges nothing and returns the list with the same
\* clusters, unchanged.
ThmC10 ==
    (HierarchRunning /\ num_clusters >= Len(input_list)) =>
        /\ merges = 0
        /\ pc # "error"
        /\ cluster_list = input_list
        /\ pc = "done" => result = input_list

\* the call with a target equal to the length of a list of 3 has returned
WitC10 ==
    /\ HierarchRunning /\ pc = "done"
    /\ num_clusters = Len(input_list) /\ Len(input_list) = 3
    /\ result = input_list

\* C11: kmeans_clustering never changes its input.  At every point of a call,
\* for every k and every number of iterations, also when the call ends in an
\* exception, the caller's list reads as it did before the call (same length,
\* order, members, populations and centers) and the call works on the
\* population-sorted copy of that full list, its first round seeded from it.
\* In dist_vs_clusters every kmeans_clustering call therefore starts from the
\* unmodified singleton list, and hierarch_clustering, which changes that
\* list, runs only after the calls for all counts of the range.
ThmC11 ==
    /\ op = "kmeans_clustering" =>
        /\ cluster_list = input_list
        /\ cluster_list_temp = SortByPopulationDesc(input_list)
        /\ (pc = "kmeans_loop" /\ round = 0) =>
               starting_clusters = Prefix(SortByPopulationDesc(input_list), num_clusters)
    /\ sweep.phase = "kmeans" =>
        /\ op = "kmeans_clustering"
        /\ merges = 0
        /\ Len(sweep.kmeans_distortions) = num_clusters - sweep.min_clusters
    /\ sweep.phase \in {"hierarch", "done"} =>
        Len(sweep.kmeans_distortions) = sweep.max_clusters - sweep.min_clusters + 1
    /\ cluster_list # input_list => sweep.phase \in {"hierarch", "done"}

\* a sweep over at least two counts with at least one round each has run all
\* its kmeans_clustering calls, and hierarch_clustering has then merged
WitC11 ==
    /\ sweep.phase = "hierarch"
    /\ num_iterations >= 1
    /\ Len(sweep.kmeans_distortions) >= 2
    /\ merges >= 1
    /\ cluster_list # input_list

\* C12: on a list of fewer than 2 clusters slow_closest_pair and
\* fast_closest_pair return nothing a caller can take for a pair: neither
\* returned index addresses an element of the list.
CexC12 ==
    ((FastDone \/ SlowDone) /\ Len(cluster_list) < 2) =>
        /\ ~InRange(cluster_list, result[2])
        /\ ~InRange(cluster_list, result[3])

\* the center m is nearest to c among the first k centers, and every center
\* of a lower index is farther: its distance is greater, or rounding can make
\* it greater where the two distances stand for the same value
IsNearest(c, centers, k, m) ==
    /\ m \in 0..(k - 1)
    /\ \A j \in 0..(k - 1) :
          /\ DistLE(distance(c, At(centers, m)), distance(c, At(centers, j)))
          /\ j < m => TRUE \in Lt(distance(c, At(centers, m)),
                                  distance(c, At(centers, j)))

\* every input assigned so far in the round sits in the accumulator of its
\* nearest center, and in no other; no center is an accumulator of the round
AssignedToNearest ==
    (op = "kmeans_clustering" /\ pc = "kmeans_assign") =>
        /\ \A i \in DOMAIN starting_clusters : \A j \in DOMAIN c_list :
               starting_clusters[i].oid # c_list[j].oid
        /\ round = 0 => starting_clusters = Prefix(cluster_list_temp, num_clusters)
        /\ \A j \in 0..(idx_1 - 1) :
               \E m \in 0..(num_clusters - 1) :
                  /\ IsNearest(At(cluster_list_temp, j), starting_clusters, num_clusters, m)
                  /\ At(cluster_list_temp, j).fips \subseteq At(c_list, m).fips
                  /\ \A o \in (0..(num_clusters - 1)) \ {m} :
                        At(cluster_list_temp, j).fips \cap At(c_list, o).fips = {}

\* the centers stay as they are while the inputs of a round are assigned and
\* become the accumulators once the last input is assigned
CentersKeptInRound ==
    /\ (pc = "kmeans_assign" /\ pc' \in {"kmeans_assign", "error"}) =>
           starting_clusters' = starting_clusters
    /\ (pc = "kmeans_loop" /\ pc' = "kmeans_assign") =>
           starting_clusters' = starting_clusters
    /\ (pc = "kmeans_assign" /\ pc' = "kmeans_loop") =>
           /\ idx_1 = Len(cluster_list_temp)
           /\ starting_clusters' = c_list

\* C13: in each round of kmeans_clustering every input cluster is assigned to
\* the center nearest to it among the k centers as they stood when the round
\* began (the seeds in the first round, the accumulators of the previous
\* round afterwards), never to an accumulator of the round in progress; among
\* equally near centers, that is centers whose computed distances compare
\* equal, the lowest index wins (distances that stand for the same value but
\* were rounded on the way may compare either way); the centers are replaced
\* by the accumulators only once every input of the round is assigned.
ThmC13 == []AssignedToNearest /\ [][CentersKeptInRound]_vars

\* in a second round an input has two equally near centers and is assigned
WitC13 ==
    /\ op = "kmeans_clustering" /\ pc = "kmeans_assign" /\ round >= 1
    /\ \E j \in 0..(idx_1 - 1) :
         \E m \in 0..(num_clusters - 1) : \E o \in 0..(num_clusters - 1) :
            /\ m < o
            /\ IsNearest(At(cluster_list_temp, j), starting_clusters, num_clusters, m)
            /\ DistEq(distance(At(cluster_list_temp, j), At(starting_clusters, m)),
                      distance(At(cluster_list_temp, j), At(starting_clusters, o)))
            /\ SameFloat(distance(At(cluster_list_temp, j), At(starting_clusters, m)),
                         distance(At(cluster_list_temp, j), At(starting_clusters, o)))
            /\ At(cluster_list_temp, j).fips \subseteq At(c_list, m).fips

\* the distance d is the minimum over all pairs of clusters of the list
MinOverPairs(list, d) ==
    \A i \in DOMAIN list : \A j \in DOMAIN list :
        i # j => DistLE(d, distance(list[i], list[j]))

\* the list about to be handed to fast_closest_pair is the caller's list in
\* ascending horizontal order, and the pair found in it is a closest pair
SortedInEveryIteration ==
    ( /\ op = "hierarch_clustering" /\ pc = "hierarch_loop"
      /\ hierarch_continue(cluster_list, num_clusters) ) =>
        \A sorted \in hierarch_sort(cluster_list) :
            /\ IsSortedByHoriz(sorted)
            /\ Len(sorted) = Len(cluster_list)
            /\ \A i \in DOMAIN cluster_list : Has(sorted, cluster_list[i])
            /\ \A closest_pair \in fast_closest_pair(sorted) :
                   /\ ValidTriple(sorted, closest_pair)
                   /\ MinOverPairs(sorted, closest_pair[1])

\* the same for the calls with a target of at least 1
SortedBeforeSearch == HierarchRunning => SortedInEveryIteration

\* an iteration replaces two clusters at minimum distance by their merge,
\* appended at the end, and keeps every other cluster as it is
MergesPairInEveryIteration ==
    ( /\ op = "hierarch_clustering" /\ pc = "hierarch_loop"
      /\ pc' = "hierarch_loop" /\ merges' = merges + 1 ) =>
        \E a \in DOMAIN cluster_list : \E b \in DOMAIN cluster_list :
            /\ a # b
            /\ MinOverPairs(cluster_list, distance(cluster_list[a], cluster_list[b]))
            /\ cluster_list'[Len(cluster_list')].fips
                   = cluster_list[a].fips \cup cluster_list[b].fips
            /\ {cluster_list'[i] : i \in 1..(Len(cluster_list') - 1)}
                   = {cluster_list[i] : i \in DOMAIN cluster_list \ {a, b}}

\* the same for the calls with a target of at least 1
MergesClosestPair == HierarchRunning => MergesPairInEveryIteration

\* C14: in every iteration of hierarch_clustering, whatever the target, the
\* list handed to fast_closest_pair is in ascending order of horizontal
\* center, also when the previous iteration appended a merged cluster at the
\* end, and the two clusters merged in the iteration are two clusters of the
\* list at the minimum center distance over all pairs of clusters in it.
CexC14 == []SortedInEveryIteration /\ [][MergesPairInEveryIteration]_vars

\* an iteration that merges a cluster with itself: the list holds one cluster
\* and the target is below 1
SelfMergeDue ==
    /\ op = "hierarch_clustering" /\ pc = "hierarch_loop"
    /\ Len(cluster_list) = 1 /\ hierarch_continue(cluster_list, num_clusters)

\* in the calls with a target of at least 1 every iteration hands a sorted
\* list to fast_closest_pair and merges two clusters at the minimum center
\* distance
ThmC14 == []SortedBeforeSearch /\ [][MergesClosestPair]_vars

\* after a merge the appended cluster is out of horizontal order and a
\* further iteration is due
WitC14 ==
    /\ HierarchRunning /\ pc = "hierarch_loop" /\ merges >= 1
    /\ hierarch_continue(cluster_list, num_clusters)
    /\ ~IsSortedByHoriz(cluster_list)
    /\ HorizLess(cluster_list[Len(cluster_list)], cluster_list[1])

\* C15: for singleton inputs with pairwise distinct identifiers, a k between
\* 1 and the number of inputs and at least one round, no call ends in an
\* exception; while a round assigns, the k accumulators have pairwise
\* disjoint member sets that together hold exactly the inputs assigned so far
\* in that round (nothing of an earlier round); the k clusters returned have
\* pairwise disjoint member sets whose union is the set of all input
\* identifiers.
ThmC15 ==
    ( /\ op = "kmeans_clustering"
      /\ 1 <= num_clusters /\ num_clusters <= Len(input_list)
      /\ num_iterations >= 1 ) =>
        /\ pc # "error"
        /\ pc = "kmeans_assign" =>
              /\ Len(c_list) = num_clusters
              /\ PairwiseDisjoint(c_list)
              /\ Members(c_list) = Members(SubSeq(cluster_list_temp, 1, idx_1))
        /\ pc = "done" =>
              /\ Len(result) = num_clusters
              /\ PairwiseDisjoint(result)
              /\ Members(result) = Members(input_list)

\* a call with 3 inputs, k = 2 and 2 rounds has returned, both clusters with
\* members
WitC15 ==
    /\ KMeansDone /\ num_iterations = 2 /\ round = 2
    /\ Len(input_list) = 3 /\ num_clusters = 2
    /\ Len(result) = 2 /\ result[1].fips # {} /\ result[2].fips # {}
====
